---- MODULE Spec2Model ----
(***************************************************************************)
(* A model of cdp-rs: the WebSocket handshake, the frame codec and the     *)
(* call / receive paths of WebSocketTarget (src/src/websocket_target.rs,   *)
(* duplicated in src/src/websocket.rs).                                    *)
(*                                                                         *)
(* Bytes are the integers 0..255 and a byte string is a sequence of them.  *)
(* A usize is 64 bits wide; it is kept as its eight base-256 limbs, limb k *)
(* being (n >> 8k) & 0xff, so that no value leaves the range of the        *)
(* checker's integers.                                                     *)
(***************************************************************************)
EXTENDS Integers, Sequences, FiniteSets, TLC

VARIABLES
    hs,         \* connect(): its position, the key sent, the response, the result
    method_id,  \* WebSocketTarget.method_id
    sends,      \* the futures returned by call_method, in invocation order
    wire,       \* the writes that reached the socket, in order
    inbound,    \* the bytes that have arrived from the peer
    peer,       \* the peer: frames begun, the rest of a frame partly sent
    closed,     \* the peer has closed its side
    rx,         \* the receive task: position in receive_frames and its locals
    rxLog,      \* what receive_frames did with each frame it was handed
    cx,         \* the codec run on its own: input, bytes written, result read
    hdr,        \* read_header run on its own: the stream, the buffer, the result
    peerLog,    \* the frames the peer has written, in order
    requests    \* the requests written on the stream of Endpoints, in order

vars == <<hs, method_id, sends, wire, inbound, peer, closed, rx, rxLog, cx, hdr, peerLog,
          requests>>

(***************************************************************************)
(* Bytes and bit operations on them.                                       *)
(***************************************************************************)
Byte == 0..255

RECURSIVE BitAnd(_, _)
BitAnd(a, b) ==
    IF a = 0 \/ b = 0 THEN 0
    ELSE ((a % 2) * (b % 2)) + (2 * BitAnd(a \div 2, b \div 2))

RECURSIVE BitOr(_, _)
BitOr(a, b) ==
    IF a = 0 THEN b
    ELSE IF b = 0 THEN a
    ELSE (IF (a % 2) + (b % 2) > 0 THEN 1 ELSE 0) + (2 * BitOr(a \div 2, b \div 2))

RECURSIVE BitXor(_, _)
BitXor(a, b) ==
    IF a = 0 THEN b
    ELSE IF b = 0 THEN a
    ELSE (((a % 2) + (b % 2)) % 2) + (2 * BitXor(a \div 2, b \div 2))

\* (flag as u8) << 7
Shl7(flag) == IF flag THEN 128 ELSE 0

(***************************************************************************)
(* usize: limbs 0..7, least significant first.                             *)
(***************************************************************************)
Limbs == 0..7

\* The usize of a length the model can count (below 2^31).
Usize(n) == [k \in Limbs |-> IF k < 4 THEN (n \div (256 ^ k)) % 256 ELSE 0]

\* len <= 125 and len <= 65535 on a usize
UsizeLe125(len) == len[0] <= 125 /\ \A k \in 1..7 : len[k] = 0
UsizeLe65535(len) == \A k \in 2..7 : len[k] = 0

\* A usize small enough to be a count of bytes of a stream of the model.
UsizeSmall(len) == len[3] < 128 /\ \A k \in 4..7 : len[k] = 0
UsizeNat(len) == len[0] + 256 * len[1] + 65536 * len[2] + 16777216 * len[3]

(***************************************************************************)
(* Opcode and WebSocketFrame.                                              *)
(***************************************************************************)
Opcodes == {"ContinuationFrame", "TextFrame", "BinaryFrame", "Close", "Ping", "Pong"}

\* opcode as u8: the enum's discriminants
OpcodeU8(opcode) ==
    CASE opcode = "ContinuationFrame" -> 0
      [] opcode = "TextFrame" -> 1
      [] opcode = "BinaryFrame" -> 2
      [] opcode = "Close" -> 8
      [] opcode = "Ping" -> 9
      [] opcode = "Pong" -> 10

NoOpcode == "none"

\* A mutant of from_u8: the catch-all arm yields a known opcode.
from_u8_defaulting(value) ==
    CASE value = 0 -> [ok |-> TRUE, opcode |-> "ContinuationFrame"]
      [] value = 1 -> [ok |-> TRUE, opcode |-> "TextFrame"]
      [] value = 2 -> [ok |-> TRUE, opcode |-> "BinaryFrame"]
      [] value = 8 -> [ok |-> TRUE, opcode |-> "Close"]
      [] value = 9 -> [ok |-> TRUE, opcode |-> "Ping"]
      [] value = 10 -> [ok |-> TRUE, opcode |-> "Pong"]
      [] OTHER -> [ok |-> TRUE, opcode |-> "ContinuationFrame"]

\* Opcode::from_u8
from_u8(value) ==
    CASE value = 0 -> [ok |-> TRUE, opcode |-> "ContinuationFrame"]
      [] value = 1 -> [ok |-> TRUE, opcode |-> "TextFrame"]
      [] value = 2 -> [ok |-> TRUE, opcode |-> "BinaryFrame"]
      [] value = 8 -> [ok |-> TRUE, opcode |-> "Close"]
      [] value = 9 -> [ok |-> TRUE, opcode |-> "Ping"]
      [] value = 10 -> [ok |-> TRUE, opcode |-> "Pong"]
      [] OTHER -> [ok |-> FALSE, opcode |-> NoOpcode]

\* masking_key: None is the empty sequence, Some(k) the four bytes of k.
None == <<>>

WebSocketFrame(fin, opcode, mask, payload_len, masking_key) ==
    [fin |-> fin, opcode |-> opcode, mask |-> mask,
     payload_len |-> payload_len, masking_key |-> masking_key]

NoFrame == WebSocketFrame(FALSE, NoOpcode, FALSE, Usize(0), None)

(***************************************************************************)
(* write_single_frame: the header bytes, then the masking key.             *)
(***************************************************************************)
\* buf[..size]: the first write_all of write_single_frame
HeaderBuf(frame) ==
    LET b0 == BitOr(Shl7(frame.fin), OpcodeU8(frame.opcode))
        b1 == Shl7(frame.mask)
        len == frame.payload_len
    IN  IF UsizeLe125(len)
        THEN <<b0, BitOr(b1, len[0])>>
        ELSE IF UsizeLe65535(len)
        THEN <<b0, BitOr(b1, 126), len[0], len[1]>>
        ELSE <<b0, BitOr(b1, 127),
               len[0], len[1], len[2], len[3], len[4], len[5], len[6], len[7]>>

\* Everything write_single_frame puts on the stream when no write fails.
write_single_frame(frame) == HeaderBuf(frame) \o frame.masking_key

(***************************************************************************)
(* read_single_frame on the bytes that are there to read.  st = "short"    *)
(* says a read_exact ran out of bytes: the caller waits while the stream   *)
(* is open and gets UnexpectedEof once it is closed.                       *)
(***************************************************************************)
ReadResult(st, err, frame, used) ==
    [st |-> st, err |-> err, frame |-> frame, used |-> used]

\* A mutant of Len16: the two bytes are taken least significant first.
Len16LittleEndian(buf) ==
    [k \in Limbs |-> IF k = 0 THEN buf[1] ELSE IF k = 1 THEN buf[2] ELSE 0]

\* ((buf[0] as usize) << 8) | (buf[1] as usize)
Len16(buf) == [k \in Limbs |-> IF k = 0 THEN buf[2] ELSE IF k = 1 THEN buf[1] ELSE 0]

\* (buf[0] << 56) | (buf[1] << 48) | ... | (buf[7] << 0)
Len64(buf) == [k \in Limbs |-> buf[8 - k]]

read_single_frame(stream) ==
    IF Len(stream) < 2 THEN ReadResult("short", "UnexpectedEof", NoFrame, 0)
    ELSE
    LET fin == BitAnd(stream[1], 128) = 128
        opcode == from_u8(BitAnd(stream[1], 15))
        mask == BitAnd(stream[2], 128) = 128
        len7 == BitAnd(stream[2], 127)
        ext == IF len7 <= 125 THEN 0 ELSE IF len7 = 126 THEN 2 ELSE 8
        key == IF mask THEN 4 ELSE 0
    IN  IF ~opcode.ok THEN ReadResult("err", "Invalid opcode", NoFrame, 2)
        ELSE IF Len(stream) < 2 + ext
        THEN ReadResult("short", "UnexpectedEof", NoFrame, 2)
        ELSE IF Len(stream) < 2 + ext + key
        THEN ReadResult("short", "UnexpectedEof", NoFrame, 2 + ext)
        ELSE
        LET payload_len ==
                IF len7 <= 125 THEN Usize(len7)
                ELSE IF len7 = 126 THEN Len16(SubSeq(stream, 3, 4))
                ELSE Len64(SubSeq(stream, 3, 10))
            masking_key ==
                IF mask THEN SubSeq(stream, 3 + ext, 6 + ext) ELSE None
        IN  ReadResult("ok", "",
                       WebSocketFrame(fin, opcode.opcode, mask, payload_len, masking_key),
                       2 + ext + key)

(***************************************************************************)
(* receive_single_frame on the bytes that are there to read.               *)
(***************************************************************************)
ReceiveResult(st, err, frame, payload, used) ==
    [st |-> st, err |-> err, frame |-> frame, payload |-> payload, used |-> used]

\* A mutant of MaskRefused: a masked frame is let through.
MaskRefusedNever(frame) == FALSE

\* if frame.mask { return Err(..) } in receive_single_frame
MaskRefused(frame) == frame.mask

receive_single_frame(stream) ==
    LET r == read_single_frame(stream)
    IN  IF r.st # "ok" THEN ReceiveResult(r.st, r.err, NoFrame, <<>>, r.used)
        ELSE IF MaskRefused(r.frame)
        THEN ReceiveResult("err", "Frame should not be masked", NoFrame, <<>>, r.used)
        ELSE IF ~UsizeSmall(r.frame.payload_len)
                \/ Len(stream) - r.used < UsizeNat(r.frame.payload_len)
        THEN ReceiveResult("short", "UnexpectedEof", NoFrame, <<>>, r.used)
        ELSE LET n == UsizeNat(r.frame.payload_len)
             IN  ReceiveResult("ok", "", r.frame,
                               SubSeq(stream, r.used + 1, r.used + n), r.used + n)

(***************************************************************************)
(* send_text_frame: masks the text and writes header, key and payload.     *)
(***************************************************************************)
\* A mutant of MaskPayload: the key is taken one place further on.
MaskPayloadShifted(data, masking_key) ==
    [i \in 1..Len(data) |-> BitXor(data[i], masking_key[(i % 4) + 1])]

\* payload[i] = data[i] ^ masking_key[i % 4]  (i counted from 0)
MaskPayload(data, masking_key) ==
    [i \in 1..Len(data) |-> BitXor(data[i], masking_key[((i - 1) % 4) + 1])]

\* The frame send_text_frame builds for a text and the key it drew.
TextFrame(text, masking_key) ==
    WebSocketFrame(TRUE, "TextFrame", TRUE,
                   Usize(Len(MaskPayload(text, masking_key))), masking_key)

\* Everything send_text_frame puts on the stream when no write fails.
send_text_frame(text, masking_key) ==
    write_single_frame(TextFrame(text, masking_key)) \o MaskPayload(text, masking_key)

(***************************************************************************)
(* The codec on its own: one frame written by write_single_frame or by     *)
(* send_text_frame, or one byte string a peer could send, then read back   *)
(* by read_single_frame or receive_single_frame from a stream that ends    *)
(* after those bytes.                                                      *)
(***************************************************************************)
\* The payload lengths at the edges of the three length tiers.
PayloadLens == {0, 1, 125, 126, 127, 256, 65535, 65536}

MaskingKeys == {<<0, 0, 0, 0>>, <<1, 2, 3, 4>>, <<255, 128, 64, 7>>}

\* The values of WebSocketFrame: the key is there exactly when mask is set.
Frames ==
    {WebSocketFrame(fin, opcode, mask, Usize(n), key) :
        fin \in BOOLEAN, opcode \in Opcodes, mask \in {TRUE},
        n \in PayloadLens, key \in MaskingKeys}
    \cup
    {WebSocketFrame(fin, opcode, mask, Usize(n), None) :
        fin \in BOOLEAN, opcode \in Opcodes, mask \in {FALSE}, n \in PayloadLens}

\* A text of n bytes.
TextOfLen(n) == [i \in 1..n |-> (7 * i + 3) % 256]

\* The texts, each with the masking keys it is sent under.
TextInputs ==
    {<<TextOfLen(n), k>> : n \in {0, 1, 2, 5, 125, 126}, k \in MaskingKeys}
    \cup {<<TextOfLen(n), <<1, 2, 3, 4>> >> : n \in {65535, 65536}}

\* Byte strings a peer can send: every first byte, the length fields of the
\* three tiers with and without the mask bit, and what follows them.
RawSecondBytes == {0, 2, 126, 127, 128, 130, 254, 255}
RawTails ==
    {<<>>,
     <<0, 2, 120, 121>>,
     <<0, 0, 0, 0, 0, 0, 0, 2, 120, 121>>,
     <<1, 2, 3, 4, 0, 0, 0, 2, 9, 9, 9, 9, 120, 121>>}
RawStreams == {<<b0, b1>> \o tail : b0 \in Byte, b1 \in RawSecondBytes, tail \in RawTails}

NoResult == ReceiveResult("none", "", NoFrame, <<>>, 0)

Codec(mode, frame, text, key, stream, step, result) ==
    [mode |-> mode, frame |-> frame, text |-> text, key |-> key,
     stream |-> stream, step |-> step, result |-> result]

CodecIdle == Codec("idle", NoFrame, <<>>, None, <<>>, "idle", NoResult)

CodecInputs ==
    {Codec("frame", f, <<>>, None, <<>>, "input", NoResult) : f \in Frames}
    \cup {Codec("text", NoFrame, t[1], t[2], <<>>, "input", NoResult) : t \in TextInputs}
    \cup {Codec("raw", NoFrame, <<>>, None, s, "written", NoResult) : s \in RawStreams}

\* write_single_frame(stream, frame)
CodecWriteFrame ==
    /\ cx.mode = "frame" /\ cx.step = "input"
    /\ cx' = [cx EXCEPT !.stream = write_single_frame(cx.frame), !.step = "written"]

\* send_text_frame(stream, text)
CodecSendText ==
    /\ cx.mode = "text" /\ cx.step = "input"
    /\ cx' = [cx EXCEPT !.stream = send_text_frame(cx.text, cx.key),
                        !.frame = TextFrame(cx.text, cx.key),
                        !.step = "written"]

\* read_single_frame(reader) on the written bytes
CodecReadFrame ==
    /\ cx.step = "written"
    /\ LET r == read_single_frame(cx.stream)
       IN  cx' = [cx EXCEPT !.step = "read",
                            !.result = ReceiveResult(r.st, r.err, r.frame, <<>>, r.used)]

\* receive_single_frame(reader) on the written bytes
CodecReceiveFrame ==
    /\ cx.step = "written"
    /\ cx' = [cx EXCEPT !.step = "received", !.result = receive_single_frame(cx.stream)]

(***************************************************************************)
(* connect: the handshake.  The key is base64 of 16 random bytes; SHA-1    *)
(* and base64 are kept as an injective map from the keys to their accept   *)
(* values.                                                                 *)
(***************************************************************************)
HandshakeKeys == {"key1", "key2"}

\* base64(SHA-1(key ++ ACCEPT_SUFFIX))
encoded(key) == IF key = "key1" THEN "accept1" ELSE "accept2"

\* A mutant of check_sec_websocket_accept: any value passes.
check_sec_websocket_accept_any(key, accept_value) == TRUE

\* check_sec_websocket_accept returns Ok
check_sec_websocket_accept(key, accept_value) == accept_value = encoded(key)

\* Option<u16>: None is <<>>, Some(c) is <<c>>
unwrap_or(opt, default) == IF opt = <<>> THEN default ELSE opt[1]

\* A mutant of StatusAccepted: every 2xx status passes as well.
StatusAccepted2xx(code) == unwrap_or(code, 0) = 101 \/ unwrap_or(code, 0) \div 100 = 2

\* response.code.unwrap_or(0) != 101 is false
StatusAccepted(code) == unwrap_or(code, 0) = 101

\* The loop over response.headers: every header named exactly
\* Sec-WebSocket-Accept is checked, the first failure returns the error.
AcceptHeadersOk(key, headers) ==
    \A i \in 1..Len(headers) :
        headers[i].name = "Sec-WebSocket-Accept"
            => check_sec_websocket_accept(key, headers[i].value)

Outcome(ok, err) == [ok |-> ok, err |-> err]

\* What connect returns once the response header has been read.
connect_result(key, response) ==
    IF response.parse = "Error" THEN Outcome(FALSE, "parse")
    ELSE IF response.parse = "Partial" THEN Outcome(FALSE, "Invalid header")
    ELSE IF ~StatusAccepted(response.code) THEN Outcome(FALSE, "Response != 101")
    ELSE IF ~AcceptHeadersOk(key, response.headers)
    THEN Outcome(FALSE, "Invalid Sec-WebSocket-Accept")
    ELSE Outcome(TRUE, "")

\* The responses a server can give.
MaxRespHeaders == 2

StatusCodes == {<<>>, <<101>>, <<200>>, <<404>>}

HeaderLines ==
    {[name |-> "Upgrade", value |-> "websocket"]}
    \cup {[name |-> n, value |-> v] :
            n \in {"Sec-WebSocket-Accept", "sec-websocket-accept"},
            v \in {"accept1", "accept2", "bogus"}}

HeaderLists == UNION {[1..n -> HeaderLines] : n \in 0..MaxRespHeaders}

Responses ==
    {[parse |-> "Complete", code |-> c, headers |-> h] :
        c \in StatusCodes \ {<<>>}, h \in HeaderLists}
    \cup {[parse |-> p, code |-> <<>>, headers |-> <<>>] :
            p \in {"Complete", "Partial", "Error"}}

Handshake(pc, key, response, result) ==
    [pc |-> pc, key |-> key, response |-> response, result |-> result]

NoOutcome == Outcome(FALSE, "pending")

\* The handshake behind a target that is connected.
Connected ==
    Handshake("done", "key1",
              [parse |-> "Complete", code |-> <<101>>,
               headers |-> <<[name |-> "Sec-WebSocket-Accept", value |-> "accept1"]>>],
              Outcome(TRUE, ""))

\* No WebSocketTarget exists.
NoTarget == -1

\* TcpStream::connect and the write of the request
ConnectSend ==
    /\ hs.pc = "start"
    /\ \/ hs' = [hs EXCEPT !.pc = "sent"]
       \/ hs' = [hs EXCEPT !.pc = "done", !.result = Outcome(FALSE, "io")]
    /\ UNCHANGED <<method_id, sends, wire, inbound, peer, closed, rx, rxLog, cx, hdr, peerLog, requests>>

\* read_header, response.parse, the status and accept checks, the target
ConnectReceive ==
    /\ hs.pc = "sent"
    /\ \/ /\ hs' = [hs EXCEPT !.pc = "done",
                             !.result = connect_result(hs.key, hs.response)]
          /\ method_id' = IF connect_result(hs.key, hs.response).ok THEN 0 ELSE method_id
       \/ /\ hs' = [hs EXCEPT !.pc = "done", !.result = Outcome(FALSE, "io")]
          /\ UNCHANGED method_id
    /\ UNCHANGED <<sends, wire, inbound, peer, closed, rx, rxLog, cx, hdr, peerLog, requests>>

(***************************************************************************)
(* read_header (src/src/endpoints.rs): the response header is read a line  *)
(* at a time into buf until buf ends in CRLFCRLF.                          *)
(***************************************************************************)
MAX_HEADER_LEN == 8192

\* reader.read_until(b'\n', buf): the bytes up to and including the next
\* newline, or all that is left when the stream ends before one.
read_until(stream, pos) ==
    LET newlines == {j \in (pos + 1)..Len(stream) : stream[j] = 10}
        stop == IF newlines = {} THEN Len(stream)
                ELSE CHOOSE j \in newlines : \A i \in newlines : j <= i
    IN  [n |-> stop - pos, chunk |-> SubSeq(stream, pos + 1, stop)]

\* len > 4 && &buf[len - 4..] == b"\r\n\r\n"
Terminated(buf) ==
    Len(buf) > 4 /\ SubSeq(buf, Len(buf) - 3, Len(buf)) = <<13, 10, 13, 10>>

\* len > MAX_HEADER_LEN
TooLarge(buf) == Len(buf) > MAX_HEADER_LEN

Header(stream, pos, buf, pc, err) ==
    [stream |-> stream, pos |-> pos, buf |-> buf, pc |-> pc, err |-> err]

HeaderIdle == Header(<<>>, 0, <<>>, "idle", "")

\* One turn of the loop of read_header.
ReadHeaderLine ==
    /\ hdr.pc = "reading"
    /\ LET r == read_until(hdr.stream, hdr.pos)
           buf == hdr.buf \o r.chunk
       IN  hdr' = IF r.n = 0
                  THEN [hdr EXCEPT !.pc = "err", !.err = "UnexpectedEof"]
                  ELSE IF Terminated(buf)
                  THEN [hdr EXCEPT !.pos = hdr.pos + r.n, !.buf = buf, !.pc = "ok"]
                  ELSE IF TooLarge(buf)
                  THEN [hdr EXCEPT !.pos = hdr.pos + r.n, !.buf = buf,
                                   !.pc = "err", !.err = "Header too large"]
                  ELSE [hdr EXCEPT !.pos = hdr.pos + r.n, !.buf = buf]
    /\ UNCHANGED <<hs, method_id, sends, wire, inbound, peer, closed, rx, rxLog, cx, peerLog, requests>>

\* read_until returns an error.
ReadHeaderIoError ==
    /\ hdr.pc = "reading"
    /\ hdr' = [hdr EXCEPT !.pc = "err", !.err = "io"]
    /\ UNCHANGED <<hs, method_id, sends, wire, inbound, peer, closed, rx, rxLog, cx, peerLog, requests>>

\* HTTP/1.1 101 OK, CRLF
StatusLine == <<72, 84, 84, 80, 47, 49, 46, 49, 32, 49, 48, 49, 32, 79, 75, 13, 10>>

\* A header line of n bytes: "X: ", n - 5 letters, CRLF.
HeaderLine(n) == <<88, 58, 32>> \o [i \in 1..(n - 5) |-> 97] \o <<13, 10>>

\* What follows the header lines: the empty line, the empty line and the
\* first bytes of a frame, a bare newline, or the end of the stream.
HeaderEnds == {<<13, 10>>, <<13, 10, 129, 0>>, <<10>>, <<>>}

\* The responses read: a status line, two header lines that bring the size
\* to both sides of MAX_HEADER_LEN, and an end; and three short streams.
HeaderStreams ==
    {StatusLine \o HeaderLine(a) \o HeaderLine(b) \o end :
        a \in {8, 4079, 9000}, b \in {5, 4093, 4094, 4095, 4096, 4097},
        end \in HeaderEnds}
    \cup {<<>>, <<13, 10, 13, 10>>, <<10, 13, 10, 13, 10>>}

(***************************************************************************)
(* MethodCall::serialize and WebSocketTarget::call_method.                 *)
(***************************************************************************)
\* The decimal digits of a number, as serde_json writes an unsigned integer.
RECURSIVE Decimal(_)
Decimal(n) == IF n < 10 THEN <<48 + n>> ELSE Decimal(n \div 10) \o <<48 + (n % 10)>>

\* A mutant of serialize: the id written is one more than the id given.
serialize_next(method, id) ==
    <<123, 34, 105, 100, 34, 58>> \o Decimal(id + 1)
    \o <<44, 34, 109, 101, 116, 104, 111, 100, 34, 58, 34>>
    \o method.domain \o <<46>> \o method.name
    \o <<34, 44, 34, 112, 97, 114, 97, 109, 115, 34, 58>> \o method.params
    \o <<125>>

\* {"id":<id>,"method":"<domain>.<name>","params":<params>}
serialize(method, id) ==
    <<123, 34, 105, 100, 34, 58>> \o Decimal(id)
    \o <<44, 34, 109, 101, 116, 104, 111, 100, 34, 58, 34>>
    \o method.domain \o <<46>> \o method.name
    \o <<34, 44, 34, 112, 97, 114, 97, 109, 115, 34, 58>> \o method.params
    \o <<125>>

\* Page.enable({})
PageEnable ==
    [domain |-> <<80, 97, 103, 101>>, name |-> <<101, 110, 97, 98, 108, 101>>,
     params |-> <<123, 125>>]

\* DOM.disable({})
DomDisable ==
    [domain |-> <<68, 79, 77>>, name |-> <<100, 105, 115, 97, 98, 108, 101>>,
     params |-> <<123, 125>>]

MethodCalls == {PageEnable, DomDisable}

\* A future returned by call_method: the text it owns and where it stands.
Future(method, text, pc, masking_key) ==
    [method |-> method, text |-> text, pc |-> pc, masking_key |-> masking_key]

MaxCalls == 2

\* A mutant of NextMethodId: the counter is left as it was.
NextMethodIdStuck(id) == id

\* self.method_id += 1
NextMethodId(id) == id + 1

\* A mutant of call_method: no call is taken once the receive task has ended.
call_method_while_receiving(method) ==
    /\ hs.result.ok
    /\ rx.pc \notin {"err", "panic"}
    /\ Len(sends) < MaxCalls
    /\ sends' = Append(sends, Future(method, serialize(method, method_id), "created", None))
    /\ method_id' = NextMethodId(method_id)
    /\ UNCHANGED <<hs, wire, inbound, peer, closed, rx, rxLog, cx, hdr, peerLog, requests>>

\* call_method(&mut self, method)
call_method(method) ==
    /\ hs.result.ok
    /\ Len(sends) < MaxCalls
    /\ sends' = Append(sends, Future(method, serialize(method, method_id), "created", None))
    /\ method_id' = NextMethodId(method_id)
    /\ UNCHANGED <<hs, wire, inbound, peer, closed, rx, rxLog, cx, hdr, peerLog, requests>>

(***************************************************************************)
(* The future of send_text_frame, one write_all at a time.  A write_all is *)
(* taken as one step, which is the least interleaving the socket allows.   *)
(***************************************************************************)
Write(from, part, bytes) == [from |-> from, part |-> part, bytes |-> bytes]

\* The first poll: the masking key is drawn, the header is written.
SendHeader(k, masking_key) ==
    /\ k \in 1..Len(sends) /\ sends[k].pc = "created"
    /\ sends' = [sends EXCEPT ![k].pc = "header", ![k].masking_key = masking_key]
    /\ wire' = Append(wire, Write(k, "header",
                                  HeaderBuf(TextFrame(sends[k].text, masking_key))))
    /\ UNCHANGED <<hs, method_id, inbound, peer, closed, rx, rxLog, cx, hdr, peerLog, requests>>

\* stream.write_all(masking_key) in write_single_frame
SendKey(k) ==
    /\ k \in 1..Len(sends) /\ sends[k].pc = "header"
    /\ sends' = [sends EXCEPT ![k].pc = "key"]
    /\ wire' = Append(wire, Write(k, "key", sends[k].masking_key))
    /\ UNCHANGED <<hs, method_id, inbound, peer, closed, rx, rxLog, cx, hdr, peerLog, requests>>

\* A mutant of SendPayload: the send waits for an inbound frame before its
\* last write.
SendPayloadAwaitsReply(k) ==
    /\ k \in 1..Len(sends) /\ sends[k].pc = "key"
    /\ Len(rxLog) >= k
    /\ sends' = [sends EXCEPT ![k].pc = "done"]
    /\ wire' = Append(wire, Write(k, "payload",
                                  MaskPayload(sends[k].text, sends[k].masking_key)))
    /\ UNCHANGED <<hs, method_id, inbound, peer, closed, rx, rxLog, cx, hdr, peerLog, requests>>

\* stream.write_all(&payload), then Ok(())
SendPayload(k) ==
    /\ k \in 1..Len(sends) /\ sends[k].pc = "key"
    /\ sends' = [sends EXCEPT ![k].pc = "done"]
    /\ wire' = Append(wire, Write(k, "payload",
                                  MaskPayload(sends[k].text, sends[k].masking_key)))
    /\ UNCHANGED <<hs, method_id, inbound, peer, closed, rx, rxLog, cx, hdr, peerLog, requests>>

\* A mutant of SendFail: a send that fails gives its id back to the counter.
SendFailReturnsId(k) ==
    /\ k \in 1..Len(sends) /\ sends[k].pc \in {"created", "header", "key"}
    /\ sends' = [sends EXCEPT ![k].pc = "failed"]
    /\ method_id' = method_id - 1
    /\ UNCHANGED <<hs, wire, inbound, peer, closed, rx, rxLog, cx, hdr, peerLog, requests>>

\* One of the three write_all calls returns an error.
SendFail(k) ==
    /\ k \in 1..Len(sends) /\ sends[k].pc \in {"created", "header", "key"}
    /\ sends' = [sends EXCEPT ![k].pc = "failed"]
    /\ UNCHANGED <<hs, method_id, wire, inbound, peer, closed, rx, rxLog, cx, hdr, peerLog, requests>>

(***************************************************************************)
(* The peer.  A frame arrives whole or in two pieces.                      *)
(***************************************************************************)
\* {"id":7,"result":{}}
ReplyText == <<123, 34, 105, 100, 34, 58, 55, 44, 34, 114, 101, 115, 117, 108,
               116, 34, 58, 123, 125, 125>>

\* {"method":"Page.loadEventFired","params":{}}
EventText == <<123, 34, 109, 101, 116, 104, 111, 100, 34, 58, 34, 80, 97, 103,
               101, 46, 108, 111, 97, 100, 69, 118, 101, 110, 116, 70, 105, 114,
               101, 100, 34, 44, 34, 112, 97, 114, 97, 109, 115, 34, 58, 123,
               125, 125>>

\* x, which is no JSON text
BadText == <<120>>

PeerFrames ==
    {<<129, 20>> \o ReplyText,                  \* fin, Text
     <<129, 44>> \o EventText,                  \* fin, Text
     <<129, 126, 0, 20>> \o ReplyText,          \* fin, Text, 16-bit length
     <<129, 1>> \o BadText,                     \* fin, Text, not JSON
     <<1, 20>> \o ReplyText,                    \* fin = 0, Text
     <<0, 0>>,                                  \* fin = 0, Continuation, empty
     <<129, 129, 1, 2, 3, 4, 121>>,             \* fin, Text, masked
     <<1, 129, 1, 2, 3, 4, 121>>,               \* fin = 0, Text, masked
     <<131, 0>>,                                \* fin, opcode 0x3
     <<137, 0>>}                                \* fin, Ping, empty

\* Unmasked frames with fin set, of every opcode: with a JSON payload and
\* with none.
OpcodeFrames ==
    {<<128 + OpcodeU8(op), 20>> \o ReplyText : op \in Opcodes}
        \cup {<<128 + OpcodeU8(op), 0>> : op \in {"Ping", "Close", "BinaryFrame"}}

\* The frames of the joint specification.
CoreFrames ==
    {<<129, 20>> \o ReplyText, <<1, 20>> \o ReplyText}

MaxFrames == 2

Peer(sent, rest) == [sent |-> sent, rest |-> rest]

\* The peer writes a frame; its first n bytes arrive.
PeerSend(f, n) ==
    /\ ~closed /\ peer.rest = <<>> /\ peer.sent < MaxFrames
    /\ n \in 1..Len(f)
    /\ inbound' = inbound \o SubSeq(f, 1, n)
    /\ peer' = Peer(peer.sent + 1, SubSeq(f, n + 1, Len(f)))
    /\ peerLog' = Append(peerLog, f)
    /\ UNCHANGED <<hs, method_id, sends, wire, closed, rx, rxLog, cx, hdr, requests>>

\* The rest of the frame arrives.
PeerFlush ==
    /\ ~closed /\ peer.rest # <<>>
    /\ inbound' = inbound \o peer.rest
    /\ peer' = Peer(peer.sent, <<>>)
    /\ UNCHANGED <<hs, method_id, sends, wire, closed, rx, rxLog, cx, hdr, peerLog, requests>>

\* The peer closes the connection: nothing more arrives.
PeerClose ==
    /\ ~closed
    /\ closed' = TRUE
    /\ UNCHANGED <<hs, method_id, sends, wire, inbound, peer, rx, rxLog, cx, hdr, peerLog, requests>>

(***************************************************************************)
(* receive_frames: the loop of the receive task.                           *)
(***************************************************************************)
\* serde_json::from_slice, on the payloads the peer of the model sends.
NoValue == [keys |-> {}, text |-> <<>>]

from_slice(payload) ==
    IF payload = ReplyText
    THEN [ok |-> TRUE, value |-> [keys |-> {"id", "result"}, text |-> payload]]
    ELSE IF payload = EventText
    THEN [ok |-> TRUE, value |-> [keys |-> {"method", "params"}, text |-> payload]]
    ELSE [ok |-> FALSE, value |-> NoValue]

Rx(pc, pos, frame, err) == [pc |-> pc, pos |-> pos, frame |-> frame, err |-> err]

\* One frame handed over by receive_single_frame and what the loop did with it.
Handled(frame, payload, did, sink, value, end) ==
    [frame |-> frame, payload |-> payload, did |-> did, sink |-> sink,
     value |-> value, end |-> end]

\* A mutant of Unread: the reader keeps no position in the stream.
UnreadFromStart == inbound

\* The bytes that are there to read.
Unread == SubSeq(inbound, rx.pos + 1, Len(inbound))

\* A mutant of RecvHeader: at the end of the stream the read waits on
\* instead of returning UnexpectedEof.
RecvHeaderWaitsAtEof ==
    /\ rx.pc = "header"
    /\ LET r == read_single_frame(Unread)
       IN  /\ r.st # "short"
           /\ rx' = IF r.st = "err"
                    THEN Rx("err", rx.pos + r.used, NoFrame, r.err)
                    ELSE IF MaskRefused(r.frame)
                    THEN Rx("err", rx.pos + r.used, r.frame, "Frame should not be masked")
                    ELSE Rx("payload", rx.pos + r.used, r.frame, "")
    /\ UNCHANGED <<hs, method_id, sends, wire, inbound, peer, closed, rxLog, cx, hdr, peerLog, requests>>

\* read_single_frame and the mask check of receive_single_frame
RecvHeader ==
    /\ rx.pc = "header"
    /\ LET r == read_single_frame(Unread)
       IN  /\ r.st = "short" => closed
           /\ rx' = IF r.st = "short"
                    THEN Rx("err", rx.pos, NoFrame, "UnexpectedEof")
                    ELSE IF r.st = "err"
                    THEN Rx("err", rx.pos + r.used, NoFrame, r.err)
                    ELSE IF MaskRefused(r.frame)
                    THEN Rx("err", rx.pos + r.used, r.frame, "Frame should not be masked")
                    ELSE Rx("payload", rx.pos + r.used, r.frame, "")
    /\ UNCHANGED <<hs, method_id, sends, wire, inbound, peer, closed, rxLog, cx, hdr, peerLog, requests>>

\* A mutant of Handle: the assertion on fin is missing.
HandleAnyFin(frame, payload, end) ==
    IF ~from_slice(payload).ok
    THEN Handled(frame, payload, "failed", "none", NoValue, end)
    ELSE Handled(frame, payload, "printed", "stdout", from_slice(payload).value, end)

\* A mutant of Handle: a payload that fails to parse is dropped and the loop
\* goes on.
HandleDropsBadJson(frame, payload, end) ==
    IF ~frame.fin
    THEN Handled(frame, payload, "panicked", "none", NoValue, end)
    ELSE IF ~from_slice(payload).ok
    THEN Handled(frame, payload, "dropped", "none", NoValue, end)
    ELSE Handled(frame, payload, "printed", "stdout", from_slice(payload).value, end)

\* A mutant of Handle: a Ping, a Pong and a Close are taken for control
\* frames and passed over; the loop goes on with the next frame.
HandleSkipsControl(frame, payload, end) ==
    IF ~frame.fin
    THEN Handled(frame, payload, "panicked", "none", NoValue, end)
    ELSE IF frame.opcode \in {"Ping", "Pong", "Close"}
    THEN Handled(frame, payload, "skipped", "none", NoValue, end)
    ELSE IF ~from_slice(payload).ok
    THEN Handled(frame, payload, "failed", "none", NoValue, end)
    ELSE Handled(frame, payload, "printed", "stdout", from_slice(payload).value, end)

\* What the loop does with a frame once receive_single_frame returned it.
Handle(frame, payload, end) ==
    IF ~frame.fin
    THEN Handled(frame, payload, "panicked", "none", NoValue, end)
    ELSE IF ~from_slice(payload).ok
    THEN Handled(frame, payload, "failed", "none", NoValue, end)
    ELSE Handled(frame, payload, "printed", "stdout", from_slice(payload).value, end)

\* read_exact of the payload, then the assertion, the parse and the println
RecvPayload ==
    /\ rx.pc = "payload"
    /\ LET n == UsizeNat(rx.frame.payload_len)
           enough == UsizeSmall(rx.frame.payload_len) /\ n <= Len(Unread)
           h == Handle(rx.frame, SubSeq(Unread, 1, n), rx.pos + n)
       IN  /\ ~enough => closed
           /\ IF ~enough
              THEN /\ rx' = Rx("err", rx.pos, rx.frame, "UnexpectedEof")
                   /\ UNCHANGED rxLog
              ELSE /\ rxLog' = Append(rxLog, h)
                   /\ rx' = IF h.did = "panicked"
                            THEN Rx("panic", h.end, rx.frame, "Fragmented frames aren't supported.")
                            ELSE IF h.did = "failed"
                            THEN Rx("err", h.end, rx.frame, "json")
                            ELSE Rx("header", h.end, NoFrame, "")
    /\ UNCHANGED <<hs, method_id, sends, wire, inbound, peer, closed, cx, hdr, peerLog, requests>>

\* A read of the socket fails.
RecvIoError ==
    /\ rx.pc \in {"header", "payload"}
    /\ rx' = Rx("err", rx.pos, rx.frame, "io")
    /\ UNCHANGED <<hs, method_id, sends, wire, inbound, peer, closed, rxLog, cx, hdr, peerLog, requests>>

(***************************************************************************)
(* From connect to the receive task.  connect reads the response through   *)
(* its own BufReader (websocket_target.rs:60), which fills its buffer with *)
(* whatever the socket holds and is dropped when connect returns; the      *)
(* receive task then reads the socket through a new BufReader (109).  How  *)
(* far behind the response's terminator the first reader got depends on    *)
(* what had arrived when it last filled its buffer: any number of the      *)
(* bytes the peer has sent by then.                                        *)
(***************************************************************************)
\* The responses of the session: one that connect accepts, one it refuses.
SessionResponses ==
    {[parse |-> "Complete", code |-> <<101>>,
      headers |-> <<[name |-> "Sec-WebSocket-Accept", value |-> "accept1"]>>],
     [parse |-> "Complete", code |-> <<200>>, headers |-> <<>>]}

\* The frames the peer sends in the session: a reply and an event.
SessionFrames == {<<129, 20>> \o ReplyText, <<129, 44>> \o EventText}

\* read_header returns with n bytes behind the terminator left in connect's
\* reader; connect returns; execute_command spawns receive_frames, whose
\* reader starts at what the socket still holds.
ConnectAndSpawn(n) ==
    /\ hs.pc = "sent"
    /\ rx.pc = "idle"
    /\ n \in 0..Len(inbound)
    /\ hs' = [hs EXCEPT !.pc = "done", !.result = connect_result(hs.key, hs.response)]
    /\ IF connect_result(hs.key, hs.response).ok
       THEN /\ method_id' = 0
            /\ rx' = Rx("header", n, NoFrame, "")
       ELSE UNCHANGED <<method_id, rx>>
    /\ UNCHANGED <<sends, wire, inbound, peer, closed, rxLog, cx, hdr, peerLog, requests>>

(***************************************************************************)
(* Endpoints (src/src/endpoints.rs): the HTTP endpoints of the browser.    *)
(* A text built by format! is the sequence of its pieces.                  *)
(***************************************************************************)
Host == "localhost"

TargetIds == {"A1", "B2"}

Urls == {"https://www.example.com"}

MaxRequests == 3

\* send_request: the request it writes for a path
send_request(host, path) ==
    <<"GET ">> \o path \o <<" HTTP/1.1\r\nHost: ", host, "\r\nConnection: close\r\n\r\n">>

\* The path in a request that send_request wrote.
PathOf(request) == SubSeq(request, 2, Len(request) - 3)

Request(op, arg, text) == [op |-> op, arg |-> arg, text |-> text]

version ==
    /\ Len(requests) < MaxRequests
    /\ requests' = Append(requests, Request("version", "", send_request(Host, <<"/json/version">>)))
    /\ UNCHANGED <<hs, method_id, sends, wire, inbound, peer, closed, rx, rxLog, cx, hdr, peerLog>>

target_list ==
    /\ Len(requests) < MaxRequests
    /\ requests' = Append(requests, Request("target_list", "", send_request(Host, <<"/json/list">>)))
    /\ UNCHANGED <<hs, method_id, sends, wire, inbound, peer, closed, rx, rxLog, cx, hdr, peerLog>>

open_new_tab(url) ==
    /\ Len(requests) < MaxRequests
    /\ requests' = Append(requests, Request("open_new_tab", url, send_request(Host, <<"/json/new?", url>>)))
    /\ UNCHANGED <<hs, method_id, sends, wire, inbound, peer, closed, rx, rxLog, cx, hdr, peerLog>>

activate(target_id) ==
    /\ Len(requests) < MaxRequests
    /\ requests' = Append(requests, Request("activate", target_id, send_request(Host, <<"/json/activate/", target_id>>)))
    /\ UNCHANGED <<hs, method_id, sends, wire, inbound, peer, closed, rx, rxLog, cx, hdr, peerLog>>

close(target_id) ==
    /\ Len(requests) < MaxRequests
    /\ requests' = Append(requests, Request("close", target_id, send_request(Host, <<"/json/activate/", target_id>>)))
    /\ UNCHANGED <<hs, method_id, sends, wire, inbound, peer, closed, rx, rxLog, cx, hdr, peerLog>>

(***************************************************************************)
(* execute_command (src/src/cli.rs) and the receive task it spawns.        *)
(***************************************************************************)
\* smol::Task::spawn(target.receive_frames()).detach(): the handle that
\* would yield the task's output is given up where the task is spawned.
TaskHandle == "detached"

\* The Result the future of receive_frames has returned, if it has.
TaskOutput == IF rx.pc = "err" THEN <<rx.err>> ELSE <<>>

\* What execute_command gets to see of the receive task: its output, through
\* a handle it holds; nothing else passes between the two.
MainObserves == IF TaskHandle = "held" THEN TaskOutput ELSE <<>>

(***************************************************************************)
(* The specifications.                                                     *)
(***************************************************************************)
\* A connected target whose receive task has been spawned.
InitTarget ==
    /\ method_id = 0
    /\ sends = <<>>
    /\ wire = <<>>
    /\ inbound = <<>>
    /\ peer = Peer(0, <<>>)
    /\ closed = FALSE
    /\ rx = Rx("header", 0, NoFrame, "")
    /\ rxLog = <<>>
    /\ peerLog = <<>>

Init ==
    /\ hs = Connected
    /\ InitTarget
    /\ cx = CodecIdle
    /\ hdr = HeaderIdle
    /\ requests = <<>>

\* The futures before the k-th have completed.
InOrder(k) == \A j \in 1..(k - 1) : j \in 1..Len(sends) => sends[j].pc \in {"done", "failed"}

\* The calling path and the receive task side by side: call_method at any
\* time, the futures awaited in the order they were returned.
Next ==
    \/ \E m \in MethodCalls : call_method(m)
    \/ \E k \in 1..MaxCalls, key \in {<<1, 2, 3, 4>>} : InOrder(k) /\ SendHeader(k, key)
    \/ \E k \in 1..MaxCalls : InOrder(k) /\ SendKey(k)
    \/ \E k \in 1..MaxCalls : InOrder(k) /\ SendPayload(k)
    \/ \E k \in 1..MaxCalls : InOrder(k) /\ SendFail(k)
    \/ \E f \in CoreFrames : PeerSend(f, Len(f))
    \/ PeerClose
    \/ RecvHeader
    \/ RecvPayload
    \/ RecvIoError

Spec == Init /\ [][Next]_vars

\* The calling path: the futures of call_method driven in any order.
NextSend ==
    \/ \E m \in {PageEnable} : call_method(m)
    \/ \E k \in 1..MaxCalls, key \in {<<0, 0, 0, 0>>, <<1, 2, 3, 4>>} : SendHeader(k, key)
    \/ \E k \in 1..MaxCalls : SendKey(k)
    \/ \E k \in 1..MaxCalls : SendPayload(k)
    \/ \E k \in 1..MaxCalls : SendFail(k)

SpecSend == Init /\ [][NextSend]_vars

\* The receive task against a peer.
NextRecv ==
    \/ \E f \in PeerFrames, n \in {1, 2, 4, 6} : PeerSend(f, n)
    \/ \E f \in PeerFrames : PeerSend(f, Len(f))
    \/ PeerFlush
    \/ PeerClose
    \/ RecvHeader
    \/ RecvPayload
    \/ RecvIoError

SpecRecv == Init /\ [][NextRecv]_vars

\* The receive task against a peer whose frames arrive whole, or cut inside
\* the header or inside the payload.
NextRecvFair ==
    \/ \E f \in PeerFrames, n \in {1, 4} : PeerSend(f, n)
    \/ \E f \in PeerFrames : PeerSend(f, Len(f))
    \/ PeerFlush
    \/ PeerClose
    \/ RecvHeader
    \/ RecvPayload
    \/ RecvIoError

\* The receive task as the executor runs it: spawned, it is polled whenever
\* its read can make progress, be it on bytes that arrived or on the end of
\* the stream.
SpecRecvFair ==
    /\ Init
    /\ [][NextRecvFair]_vars
    /\ WF_vars(RecvHeader)
    /\ WF_vars(RecvPayload)

\* The handshake, for every key and response.
InitHandshake ==
    /\ hs \in {Handshake("start", k, r, NoOutcome) : k \in HandshakeKeys, r \in Responses}
    /\ method_id = NoTarget
    /\ sends = <<>>
    /\ wire = <<>>
    /\ inbound = <<>>
    /\ peer = Peer(0, <<>>)
    /\ closed = FALSE
    /\ rx = Rx("idle", 0, NoFrame, "")
    /\ rxLog = <<>>
    /\ peerLog = <<>>
    /\ cx = CodecIdle
    /\ hdr = HeaderIdle
    /\ requests = <<>>

NextHandshake == ConnectSend \/ ConnectReceive

SpecHandshake == InitHandshake /\ [][NextHandshake]_vars

\* The codec, for every input.
InitCodec ==
    /\ hs = Connected
    /\ InitTarget
    /\ cx \in CodecInputs
    /\ hdr = HeaderIdle
    /\ requests = <<>>

NextCodec ==
    (CodecWriteFrame \/ CodecSendText \/ CodecReadFrame \/ CodecReceiveFrame)
    /\ UNCHANGED <<hs, method_id, sends, wire, inbound, peer, closed, rx, rxLog, hdr, peerLog, requests>>

SpecCodec == InitCodec /\ [][NextCodec]_vars

\* read_header, for every response stream.
InitHeader ==
    /\ hs = Connected
    /\ InitTarget
    /\ cx = CodecIdle
    /\ hdr \in {Header(r, 0, <<>>, "reading", "") : r \in HeaderStreams}
    /\ requests = <<>>

NextHeader == ReadHeaderLine \/ ReadHeaderIoError

SpecHeader == InitHeader /\ [][NextHeader]_vars

\* The session from the moment the request has been written: the peer
\* answers and may send frames at once.
InitSession ==
    /\ hs \in {Handshake("sent", "key1", r, NoOutcome) : r \in SessionResponses}
    /\ method_id = NoTarget
    /\ sends = <<>>
    /\ wire = <<>>
    /\ inbound = <<>>
    /\ peer = Peer(0, <<>>)
    /\ closed = FALSE
    /\ rx = Rx("idle", 0, NoFrame, "")
    /\ rxLog = <<>>
    /\ peerLog = <<>>
    /\ cx = CodecIdle
    /\ hdr = HeaderIdle
    /\ requests = <<>>

NextSession ==
    \/ \E f \in SessionFrames : PeerSend(f, Len(f))
    \/ \E f \in SessionFrames : PeerSend(f, 2)
    \/ PeerFlush
    \/ PeerClose
    \/ \E n \in 0..Len(inbound) : ConnectAndSpawn(n)
    \/ RecvHeader
    \/ RecvPayload
    \/ RecvIoError

SpecSession == InitSession /\ [][NextSession]_vars

\* The receive task against a peer that sends frames of every opcode, with
\* the calling path beside it.
NextOpcodes ==
    \/ \E m \in {PageEnable} : call_method(m)
    \/ \E k \in 1..MaxCalls : InOrder(k) /\ SendHeader(k, <<0, 0, 0, 0>>)
    \/ \E k \in 1..MaxCalls : InOrder(k) /\ SendKey(k)
    \/ \E k \in 1..MaxCalls : InOrder(k) /\ SendPayload(k)
    \/ \E f \in OpcodeFrames : PeerSend(f, Len(f))
    \/ PeerClose
    \/ RecvHeader
    \/ RecvPayload

SpecOpcodes == Init /\ [][NextOpcodes]_vars

\* The operations of Endpoints, called in any order.
NextEndpoints ==
    \/ version
    \/ target_list
    \/ \E url \in Urls : open_new_tab(url)
    \/ \E target_id \in TargetIds : activate(target_id)
    \/ \E target_id \in TargetIds : close(target_id)

SpecEndpoints == Init /\ [][NextEndpoints]_vars

(***************************************************************************)
(* The claims.                                                             *)
(***************************************************************************)
\* The id a serialized call carries: the digits that follow {"id": (-1 when
\* the text does not start that way).
RECURSIVE DigitsFrom(_, _, _)
DigitsFrom(text, i, acc) ==
    IF i <= Len(text) /\ text[i] \in 48..57
    THEN DigitsFrom(text, i + 1, (10 * acc) + (text[i] - 48))
    ELSE acc

IdOfText(text) ==
    IF Len(text) >= 7 /\ SubSeq(text, 1, 6) = <<123, 34, 105, 100, 34, 58>>
       /\ text[7] \in 48..57
    THEN DigitsFrom(text, 7, 0)
    ELSE -1

\* C1: in every state, whatever the receive task has done, the k-th call of
\* call_method carries id k-1 in its text, no two calls carry the same id,
\* and method_id is the number of calls made.
C1_IdsFollowCalls ==
    /\ method_id = Len(sends)
    /\ \A k \in 1..Len(sends) : IdOfText(sends[k].text) = k - 1
    /\ \A j, k \in 1..Len(sends) :
          j # k => IdOfText(sends[j].text) # IdOfText(sends[k].text)

\* Two calls were made and the receive task handled a frame in between or after.
C1_Witness ==
    /\ Len(sends) >= 2
    /\ Len(rxLog) >= 1
    /\ IdOfText(sends[1].text) = 0
    /\ IdOfText(sends[2].text) = 1

\* C2: connect succeeds only if the response carries a Sec-WebSocket-Accept
\* header whose value is the accept value of the key that was sent.
C2_AcceptHeaderRequired ==
    hs.result.ok =>
        \E i \in 1..Len(hs.response.headers) :
            /\ hs.response.headers[i].name = "Sec-WebSocket-Accept"
            /\ hs.response.headers[i].value = encoded(hs.key)

\* The payload a decoder gets by reading payload_len bytes after the header
\* and undoing the mask with the key it decoded.
PayloadAfter(stream, result) ==
    LET n == UsizeNat(result.frame.payload_len)
    IN  IF result.st = "ok" /\ UsizeSmall(result.frame.payload_len)
           /\ Len(stream) - result.used = n
        THEN MaskPayload(SubSeq(stream, result.used + 1, result.used + n),
                         result.frame.masking_key)
        ELSE <<-1>>

\* C3: a text of L bytes written by send_text_frame and read back by
\* read_single_frame gives payload_len = L, and the L bytes that follow the
\* header, unmasked, are the text.
C3_RoundTrip ==
    (cx.mode = "text" /\ cx.step = "read") =>
        /\ cx.result.st = "ok"
        /\ cx.result.frame.payload_len = Usize(Len(cx.text))
        /\ PayloadAfter(cx.stream, cx.result) = cx.text

\* The header the wire format asks for: lengths above 125 big-endian.
BigEndianHeader(frame) ==
    LET b0 == Shl7(frame.fin) + OpcodeU8(frame.opcode)
        b1 == Shl7(frame.mask)
        len == frame.payload_len
    IN  (IF UsizeLe125(len) THEN <<b0, b1 + len[0]>>
         ELSE IF UsizeLe65535(len) THEN <<b0, b1 + 126, len[1], len[0]>>
         ELSE <<b0, b1 + 127,
                len[7], len[6], len[5], len[4], len[3], len[2], len[1], len[0]>>)
        \o (IF frame.mask THEN frame.masking_key ELSE <<>>)

\* C4: the bytes write_single_frame writes are byte0 = fin<<7 | opcode,
\* byte1 = mask<<7 | length field, the length big-endian in 2 or 8 bytes
\* when it is above 125, then the masking key iff mask is set.
C4_HeaderLayout ==
    (cx.mode = "frame" /\ cx.step = "written") => cx.stream = BigEndianHeader(cx.frame)

\* C5: the writes of one send future are never split by a write of another.
C5_FramesNotInterleaved ==
    \A i, j, l \in 1..Len(wire) :
        (i < j /\ j < l /\ wire[i].from = wire[l].from) => wire[j].from = wire[i].from

\* C6: a message with a top-level id and a message without one are handed
\* to different paths.
C6_RepliesAndEventsApart ==
    \A i, j \in 1..Len(rxLog) :
        (/\ rxLog[i].did = "printed" /\ rxLog[j].did = "printed"
         /\ "id" \in rxLog[i].value.keys /\ "id" \notin rxLog[j].value.keys)
            => rxLog[i].sink # rxLog[j].sink

\* C7: once connect has returned, a response whose status is not 101 has
\* given an error and no target.
C7_Non101Rejected ==
    (hs.pc = "done" /\ hs.response.code # <<101>>) =>
        ~hs.result.ok /\ method_id = NoTarget

\* A 200 response with an Upgrade header and the right accept value was refused.
C7_Witness ==
    /\ hs.pc = "done"
    /\ hs.response.parse = "Complete"
    /\ hs.response.code = <<200>>
    /\ hs.response.headers =
          <<[name |-> "Upgrade", value |-> "websocket"],
            [name |-> "Sec-WebSocket-Accept", value |-> encoded(hs.key)]>>
    /\ hs.result = Outcome(FALSE, "Response != 101")
    /\ method_id = NoTarget

\* C8 as stated: the loop fails on a fin = false frame without reading any
\* of its payload: it is never at the payload read of such a frame with
\* payload bytes to read, and no such frame comes back with payload bytes.
C8_FailsBeforePayload ==
    /\ (rx.pc = "payload" /\ ~rx.frame.fin) => rx.frame.payload_len = Usize(0)
    /\ \A i \in 1..Len(rxLog) : ~rxLog[i].frame.fin => rxLog[i].payload = <<>>

\* C8 amended: a fin = false frame that receive_single_frame returned, with
\* its payload read, is the last frame the task ever reads: the task has
\* panicked at the end of that frame and has neither parsed nor printed it.
C8_FailsOnceFragmentRead ==
    \A i \in 1..Len(rxLog) :
        ~rxLog[i].frame.fin =>
            /\ i = Len(rxLog)
            /\ rx.pc = "panic"
            /\ rx.pos = rxLog[i].end
            /\ rxLog[i].did = "panicked"
            /\ rxLog[i].sink = "none"
            /\ rxLog[i].value = NoValue

\* A fragment with a payload was read and failed while a later frame waits unread.
C8_Witness ==
    /\ Len(rxLog) >= 1
    /\ ~rxLog[Len(rxLog)].frame.fin
    /\ Len(rxLog[Len(rxLog)].payload) > 0
    /\ rx.pc = "panic"
    /\ Len(inbound) > rx.pos
    /\ peer.sent = 2

\* C9: receive_single_frame on a frame whose mask bit is set never returns a
\* frame or a payload: it returns an error.
C9_MaskedRejected ==
    (/\ cx.step = "received" /\ Len(cx.stream) >= 2
     /\ BitAnd(cx.stream[2], 128) = 128) =>
        /\ cx.result.st # "ok"
        /\ cx.result.frame = NoFrame
        /\ cx.result.payload = <<>>

\* A complete masked frame with a valid opcode was refused for its mask.
C9_Witness ==
    /\ cx.step = "received"
    /\ cx.stream = <<129, 130, 1, 2, 3, 4, 0, 0, 0, 2, 9, 9, 9, 9, 120, 121>>
    /\ cx.result.st = "err"
    /\ cx.result.err = "Frame should not be masked"

\* C10: decoding a header whose opcode bits are none of 0, 1, 2, 8, 9, 10
\* fails with the invalid-opcode error and yields no frame.
C10_UnknownOpcodeRejected ==
    (/\ cx.step \in {"read", "received"} /\ Len(cx.stream) >= 2
     /\ BitAnd(cx.stream[1], 15) \notin {0, 1, 2, 8, 9, 10}) =>
        /\ cx.result.st = "err"
        /\ cx.result.err = "Invalid opcode"
        /\ cx.result.frame.opcode \notin Opcodes

\* A header with opcode bits 0x3 was decoded, and refused.
C10_Witness ==
    /\ cx.step = "read"
    /\ Len(cx.stream) >= 2
    /\ BitAnd(cx.stream[1], 15) = 3
    /\ cx.result.err = "Invalid opcode"

\* C11: a frame whose payload fails to parse as JSON is the last frame the
\* receive task reads: the task has returned the parse error at the end of
\* that frame and has printed nothing for it or after it.
C11_ParseFailureStops ==
    \A i \in 1..Len(rxLog) :
        (rxLog[i].frame.fin /\ ~from_slice(rxLog[i].payload).ok) =>
            /\ i = Len(rxLog)
            /\ rxLog[i].did = "failed"
            /\ rxLog[i].sink = "none"
            /\ rx.pc = "err"
            /\ rx.err = "json"
            /\ rx.pos = rxLog[i].end

\* A payload that is no JSON failed the task while a later frame waits unread.
C11_Witness ==
    /\ Len(rxLog) >= 1
    /\ rxLog[Len(rxLog)].frame.fin
    /\ rxLog[Len(rxLog)].payload = BadText
    /\ rx.pc = "err"
    /\ rx.err = "json"
    /\ Len(inbound) > rx.pos
    /\ peer.sent = 2

\* C12: read_header returns Ok only with a buffer that ends at the CRLFCRLF
\* terminator, and never with more than 8192 bytes read: once the bytes read
\* exceed 8192 the read has failed, whatever the last four bytes are.
C12_HeaderBounded ==
    /\ hdr.pc = "ok" =>
          /\ Terminated(hdr.buf)
          /\ hdr.buf = SubSeq(hdr.stream, 1, hdr.pos)
    /\ Len(hdr.buf) > MAX_HEADER_LEN => hdr.pc = "err"

\* The number a byte string spells most significant byte first, as a usize.
BigEndianValue(bytes) ==
    [k \in Limbs |-> IF k < Len(bytes) THEN bytes[Len(bytes) - k] ELSE 0]

\* The same header with its length spelled in the 8-byte form.
WidenTo64(stream) ==
    LET field == stream[2] % 128
    IN  IF field <= 125
        THEN <<stream[1], (stream[2] - field) + 127, 0, 0, 0, 0, 0, 0, 0, field>>
             \o SubSeq(stream, 3, Len(stream))
        ELSE IF field = 126
        THEN <<stream[1], stream[2] + 1, 0, 0, 0, 0, 0, 0, stream[3], stream[4]>>
             \o SubSeq(stream, 5, Len(stream))
        ELSE stream

\* C13: a header that read_single_frame decodes has payload_len equal to the
\* 7-bit length field when that is 0..125, to the next 2 bytes read
\* big-endian when it is 126, to the next 8 bytes read big-endian when it is
\* 127; and the same number spelled in the 8-byte form decodes to the same
\* payload_len.
C13_ThreeTierLength ==
    (cx.step = "read" /\ cx.result.st = "ok") =>
        LET field == cx.stream[2] % 128
        IN  /\ cx.result.frame.payload_len =
                   IF field <= 125 THEN BigEndianValue(<<field>>)
                   ELSE IF field = 126 THEN BigEndianValue(SubSeq(cx.stream, 3, 4))
                   ELSE BigEndianValue(SubSeq(cx.stream, 3, 10))
            /\ read_single_frame(WidenTo64(cx.stream)).frame.payload_len
                   = cx.result.frame.payload_len

\* A 16-bit length whose two bytes differ was decoded most significant first.
C13_Witness ==
    /\ cx.mode = "raw"
    /\ cx.step = "read"
    /\ Len(cx.stream) >= 4
    /\ SubSeq(cx.stream, 1, 4) = <<129, 126, 1, 2>>
    /\ cx.result.st = "ok"
    /\ cx.result.frame.payload_len = Usize(258)

\* C14: the first bytes of the frames reach the wire in the order of the
\* calls: of two calls whose futures have both been driven, the header write
\* of the earlier call precedes the header write of the later one.
C14_FramesInCallOrder ==
    \A i, j \in 1..Len(wire) :
        (i < j /\ wire[i].part = "header" /\ wire[j].part = "header")
            => wire[i].from < wire[j].from

\* C15: once the receive task has returned an error (a failed read, end of
\* stream, a masked frame, an invalid opcode, a payload that is no JSON),
\* the main control flow has a signal of it to see.
C15_ReceiveErrorSurfaced ==
    rx.pc = "err" => MainObserves # <<>>

WellFormed(f) ==
    /\ f[1] = 129
    /\ f[2] < 128
    /\ \E text \in {ReplyText, EventText} :
          f \in {<<129, Len(text)>> \o text, <<129, 126, 0, Len(text)>> \o text}

\* C17: the receive task never returns Ok, and it does not stop while the
\* stream is open, no read has failed and every frame sent is well-formed;
\* and once the peer has closed the stream the task eventually stops.
C17_RunsUntilStreamEnds ==
    /\ [](/\ rx.pc \in {"header", "payload", "err", "panic"}
          /\ rx.pc = "err" => rx.err # ""
          /\ (/\ ~closed
              /\ rx.err # "io"
              /\ \A i \in 1..Len(peerLog) : WellFormed(peerLog[i]))
                 => rx.pc \in {"header", "payload"})
    /\ (closed ~> rx.pc \in {"err", "panic"})

\* Two well-formed frames were printed, then the peer closed and the task
\* returned UnexpectedEof.
C17_Witness ==
    /\ closed
    /\ Len(rxLog) = 2
    /\ \A i \in 1..2 : rxLog[i].did = "printed"
    /\ rx.pc = "err"
    /\ rx.err = "UnexpectedEof"
    /\ rx.pos = Len(inbound)

\* C18: no step of the receive task writes to the connection or touches a
\* send future; every write on the wire is a write of a send future; a
\* future that has written its header can always take its remaining writes,
\* whatever has or has not arrived, and is done with exactly its three writes
\* on the wire.
C18_SidesIndependent ==
    /\ [][(rx' # rx \/ rxLog' # rxLog) => (wire' = wire /\ sends' = sends)]_vars
    /\ [](/\ \A i \in 1..Len(wire) : wire[i].from \in 1..Len(sends)
          /\ \A k \in 1..Len(sends) :
                /\ (InOrder(k) /\ sends[k].pc = "header") => ENABLED SendKey(k)
                /\ (InOrder(k) /\ sends[k].pc = "key") => ENABLED SendPayload(k)
                /\ sends[k].pc = "done" =>
                      Cardinality({i \in 1..Len(wire) : wire[i].from = k}) = 3)

\* Two calls have completed while nothing at all has arrived and the receive
\* task still waits for its first header.
C18_Witness ==
    /\ Len(sends) = 2
    /\ sends[1].pc = "done"
    /\ sends[2].pc = "done"
    /\ inbound = <<>>
    /\ ~closed
    /\ rx.pc = "header"
    /\ rxLog = <<>>

\* The number of bytes of the first n frames the peer wrote.
RECURSIVE SentBytes(_)
SentBytes(n) == IF n = 0 THEN 0 ELSE SentBytes(n - 1) + Len(peerLog[n])

C20_MaskedTextFrame ==
    (cx.mode = "text" /\ cx.step = "written") =>
        LET field == cx.stream[2] % 128
            ext == IF field <= 125 THEN 0 ELSE IF field = 126 THEN 2 ELSE 8
            len == IF field <= 125 THEN BigEndianValue(<<field>>)
                   ELSE BigEndianValue(SubSeq(cx.stream, 3, 2 + ext))
        IN  /\ cx.stream[1] = 129
            /\ cx.stream[2] >= 128
            /\ len = Usize(Len(cx.text))
            /\ SubSeq(cx.stream, 3 + ext, 6 + ext) = cx.key
            /\ Len(cx.key) = 4
            /\ SubSeq(cx.stream, 7 + ext, Len(cx.stream)) = MaskPayload(cx.text, cx.key)

\* Exclusive or of two bytes, bit by bit: bit b of the result is set when
\* exactly one of the two bytes has it set.
XorByte(a, b) ==
    LET bit(x, n) == (x \div (2 ^ n)) % 2
        term(n) == ((bit(a, n) + bit(b, n)) % 2) * (2 ^ n)
    IN  term(0) + term(1) + term(2) + term(3) + term(4) + term(5) + term(6) + term(7)

\* C21: the payload bytes send_text_frame puts on the wire are
\* text[i] XOR key[i mod 4] for every index i (counted from 0), and the same
\* XOR with the same key on those wire bytes gives back the text.
C21_MaskingIsXorInvolution ==
    (cx.mode = "text" /\ cx.step = "written") =>
        LET n == Len(cx.text)
            onWire == SubSeq(cx.stream, Len(cx.stream) - n + 1, Len(cx.stream))
        IN  /\ Len(cx.stream) >= n
            /\ \A i \in 1..n : onWire[i] = XorByte(cx.text[i], cx.key[((i - 1) % 4) + 1])
            /\ \A i \in 1..n : XorByte(onWire[i], cx.key[((i - 1) % 4) + 1]) = cx.text[i]
            /\ MaskPayload(onWire, cx.key) = cx.text

\* A 5-byte text went out under the key 255, 128, 64, 7: every byte on the
\* wire differs from the byte of the text, the fifth is masked with the
\* first key byte again.
C21_Witness ==
    /\ cx.mode = "text"
    /\ cx.step = "written"
    /\ cx.key = <<255, 128, 64, 7>>
    /\ cx.text = <<10, 17, 24, 31, 38>>
    /\ SubSeq(cx.stream, Len(cx.stream) - 4, Len(cx.stream)) = <<245, 145, 88, 24, 217>>

\* C22: a call takes its id when call_method is invoked: that step alone
\* moves method_id, by one, and leaves a future that has written nothing and
\* carries the old value as its id; no later step of any future, a failing
\* write included, moves method_id; so the k-th call keeps id k-1 whether
\* its future completed, failed or was never polled, and no two calls share
\* an id.
C22_IdConsumedAtCall ==
    /\ [][Len(sends') = Len(sends) + 1 =>
             /\ method_id' = method_id + 1
             /\ sends'[Len(sends')].pc = "created"
             /\ IdOfText(sends'[Len(sends')].text) = method_id
             /\ wire' = wire]_vars
    /\ [][Len(sends') = Len(sends) => method_id' = method_id]_vars
    /\ [](/\ method_id = Len(sends)
          /\ \A j, k \in 1..Len(sends) :
                j < k => IdOfText(sends[j].text) < IdOfText(sends[k].text))

\* The first call failed before it wrote anything; the second call carries
\* id 1, not 0, and has completed.
C22_Witness ==
    /\ Len(sends) = 2
    /\ sends[1].pc = "failed"
    /\ \A i \in 1..Len(wire) : wire[i].from = 2
    /\ sends[2].pc = "done"
    /\ IdOfText(sends[1].text) = 0
    /\ IdOfText(sends[2].text) = 1
    /\ method_id = 2

\* C23: no byte the peer sent behind the response's terminator is lost on
\* the way to the frame decoder: the receive task starts decoding at the
\* first of those bytes, and the first frame it is handed is the first
\* frame the peer sent, whole.
C23_NoByteLostAtHandoff ==
    /\ (rx.pc = "header" /\ rxLog = <<>>) => rx.pos = 0
    /\ Len(rxLog) >= 1 =>
          LET sent == peerLog[1]
              n == Len(rxLog[1].payload)
          IN  /\ rxLog[1].end = Len(sent)
              /\ n <= Len(sent)
              /\ rxLog[1].payload = SubSeq(sent, Len(sent) - n + 1, Len(sent))

\* C24: the receive loop does with a frame that has fin set what it does
\* with a Text frame of the same payload, whatever the opcode: the payload
\* is parsed as JSON and printed, and a payload that is no JSON (an empty
\* Ping or Close) ends the task with the parse error.  The task writes
\* nothing: every write on the socket is a method call's Text frame.
C24_OpcodeIgnored ==
    /\ [](\A i \in 1..Len(rxLog) :
            rxLog[i].frame.fin =>
                /\ rxLog[i].did = IF from_slice(rxLog[i].payload).ok THEN "printed" ELSE "failed"
                /\ rxLog[i].did = "printed" =>
                      /\ rxLog[i].sink = "stdout"
                      /\ rxLog[i].value = from_slice(rxLog[i].payload).value
                /\ rxLog[i].did = "failed" =>
                      /\ i = Len(rxLog)
                      /\ rx.pc = "err"
                      /\ rx.err = "json")
    /\ [](\A i \in 1..Len(wire) :
            /\ wire[i].from \in 1..Len(sends)
            /\ wire[i].part = "header" => BitAnd(wire[i].bytes[1], 15) = OpcodeU8("TextFrame"))
    /\ [][(rx' # rx \/ rxLog' # rxLog) => wire' = wire]_vars

\* A Ping that carries JSON was printed, an empty Close then ended the task,
\* and the only bytes written are those of a method call.
C24_Witness ==
    /\ Len(rxLog) = 2
    /\ rxLog[1].frame.opcode = "Ping"
    /\ rxLog[1].did = "printed"
    /\ rxLog[2].frame.opcode = "Close"
    /\ rxLog[2].payload = <<>>
    /\ rxLog[2].did = "failed"
    /\ rx.pc = "err"
    /\ Len(wire) = 3
    /\ \A i \in 1..Len(wire) : wire[i].from = 1

\* C25: close(target_id) asks for the close path of the target,
\* /json/close/<id>, and never for the path that activate(target_id) asks
\* for with the same id.
C25_CloseNotActivate ==
    \A i \in 1..Len(requests) :
        requests[i].op = "close" =>
            /\ PathOf(requests[i].text) = <<"/json/close/", requests[i].arg>>
            /\ \A j \in 1..Len(requests) :
                  (requests[j].op = "activate" /\ requests[j].arg = requests[i].arg)
                      => requests[j].text # requests[i].text

====
